---- MODULE Spec2Model ----
(***************************************************************************)
(* Flash-anzan game session of src/App.tsx: the phase machine of the App   *)
(* component, the flash timers of its effect, the keypad input and the     *)
(* score / streak ledger.                                                  *)
(*                                                                         *)
(* Strings of the source that are not ASCII are written in romanised form. *)
(* Rendering, styling and audio synthesis are left out; every handler that *)
(* React can invoke in a phase is an action guarded by the phase whose     *)
(* screen renders its button.                                              *)
(***************************************************************************)
EXTENDS Integers, Sequences, FiniteSets, TLC

(***************************************************************************)
(* Bounds of the exploration.                                              *)
(***************************************************************************)
\* presets DIFFICULTY_LEVELS[1..MaxPreset] can be selected
MaxPreset == 2
\* keypad digits 0..MaxDigit can be pressed
MaxDigit == 2
\* at most MaxRounds answers are submitted in one session
MaxRounds == 2
\* Math.random() yields k / RandDen; the draws explored are the two extremes
RandDen == 16
\* presets given to round generation as inputs have count up to MaxTestCount
MaxTestCount == 4
\* ... and maxValue up to MaxTestValue
MaxTestValue == 2

(***************************************************************************)
(* Constants of the program.                                               *)
(***************************************************************************)
\* useRef<number | null>(null): the empty timer handle (falsy, like null)
NULL == 0

\* parseInt of a string without a leading digit
NaN == -1

\* enum GameState
GameState == {"START", "READY", "FLASHING", "ANSWERING", "RESULT"}

\* the catalog of presets (presentation fields left out)
DIFFICULTY_LEVELS ==
  << [name |-> "tamago-kyuu",  count |-> 2,  interval |-> 1200, maxValue |-> 5],
     [name |-> "hiyoko-kyuu",  count |-> 3,  interval |-> 1000, maxValue |-> 9],
     [name |-> "usagi-kyuu",   count |-> 5,  interval |-> 800,  maxValue |-> 9],
     [name |-> "kuma-kyuu",    count |-> 7,  interval |-> 600,  maxValue |-> 9],
     [name |-> "raion-kyuu",   count |-> 10, interval |-> 400,  maxValue |-> 15] >>

PRAISE_MESSAGES ==
  << "sugosugiru!", "tensai!", "kanpeki!", "sonochoushi!", "kirakira!", "kakkoii!" >>

\* the literal of the miss branch of checkAnswer
MISS_MESSAGE == "oshikattane!"

\* the labels of the digit buttons, by digit value + 1
DigitKeys == << "0", "1", "2", "3", "4", "5", "6", "7", "8", "9" >>

(***************************************************************************)
(* Pure helpers.                                                           *)
(***************************************************************************)
\* numerators k of the values k / RandDen that Math.random() returns here
RandomSource == { 0, RandDen - 1 }

\* Math.floor(Math.random() * n) for Math.random() = k / RandDen
FloorRandomTimes(k, n) == (k * n) \div RandDen

DrawValueZeroBased(k, maxValue) == FloorRandomTimes(k, maxValue)

\* Math.floor(Math.random() * config.maxValue) + 1
DrawValue(k, maxValue) == FloorRandomTimes(k, maxValue) + 1

\* every array Array.from({ length: cfg.count }, ...) can produce
NewNumbers(cfg) ==
  { [i \in 1..cfg.count |-> DrawValue(d[i], cfg.maxValue)] :
      d \in [1..cfg.count -> RandomSource] }

RECURSIVE ReduceFrom(_, _, _)
ReduceFrom(acc, s, i) ==
  IF i > Len(s) THEN acc ELSE ReduceFrom(acc + s[i], s, i + 1)

ReduceAddNoInitial(s) == IF Len(s) = 0 THEN 0 ELSE ReduceFrom(0, s, 2)

\* newNumbers.reduce((a, b) => a + b, 0)
ReduceAdd(s) == ReduceFrom(0, s, 1)

DigitOf(ch) == CHOOSE d \in 0..9 : DigitKeys[d + 1] = ch

RECURSIVE ParseDigits(_, _, _)
ParseDigits(acc, s, i) ==
  IF i > Len(s) THEN acc ELSE ParseDigits(acc * 10 + DigitOf(s[i]), s, i + 1)

\* parseInt(userAnswer) for a string of digit-button labels
parseInt(s) == IF Len(s) = 0 THEN NaN ELSE ParseDigits(0, s, 1)

\* a === b on numbers (NaN equals nothing)
StrictEquals(a, b) == a # NaN /\ b # NaN /\ a = b

CorrectScorePostIncrement(s, cnt, stk) == s + (cnt * 10) + ((stk + 1) * 5)

CorrectScoreAssigned(s, cnt, stk) == (cnt * 10) + (stk * 5)

\* setScore(s => s + (config.count * 10) + (streak * 5))
CorrectScore(s, cnt, stk) == s + (cnt * 10) + (stk * 5)

MissStreakKept(stk) == stk

\* setStreak(0)
MissStreak(stk) == 0

NextIdxSkipping(idx) == idx + 2

\* idx++
NextIdx(idx) == idx + 1

(***************************************************************************)
(* State.                                                                  *)
(***************************************************************************)
VARIABLES
  gameState,      \* useState<GameState>
  config,         \* useState<GameConfig>: the selected preset record
  numbers,        \* useState<number[]>: the values of the round
  currentIndex,   \* useState<number>: the displayed index, -1 for none
  userAnswer,     \* useState<string>: sequence of digit-button labels
  score,          \* useState<number>
  correctAnswer,  \* useState<number>: the stored sum
  streak,         \* useState<number>
  praise,         \* useState("")
  flashTimerRef,  \* useRef: id of the interval last created, or NULL
  timers,         \* pending window timers of the effect, with their closures
  flashLog,       \* history: arguments of setCurrentIndex since FLASHING began
  displayedFor,   \* history: periods each index has spent on display
  flashSignals,   \* history: calls of sounds.flash() since FLASHING began
  submits         \* history: outcome of every checkAnswer, TRUE = correct

vars == << gameState, config, numbers, currentIndex, userAnswer, score,
           correctAnswer, streak, praise, flashTimerRef, timers,
           flashLog, displayedFor, flashSignals, submits >>

ledger == << score, streak, praise, submits >>
round == << numbers, correctAnswer >>
flash == << currentIndex, flashTimerRef, timers, flashLog, displayedFor, flashSignals >>

Init ==
  /\ gameState = "START"
  /\ config = DIFFICULTY_LEVELS[1]
  /\ numbers = << >>
  /\ currentIndex = -1
  /\ userAnswer = << >>
  /\ score = 0
  /\ correctAnswer = 0
  /\ streak = 0
  /\ praise = ""
  /\ flashTimerRef = NULL
  /\ timers = { }
  /\ flashLog = << >>
  /\ displayedFor = << >>
  /\ flashSignals = 0
  /\ submits = << >>

(***************************************************************************)
(* Timers: window.setInterval / setTimeout / clearInterval.                *)
(***************************************************************************)
\* a handle no pending timer and no stored reference uses (handles are unique)
FreshTimerId ==
  CHOOSE n \in 1..(Cardinality(timers) + 2) :
    /\ n # flashTimerRef
    /\ \A t \in timers : t.id # n
    /\ \A m \in 1..(n - 1) : m = flashTimerRef \/ \E t \in timers : t.id = m

ClearFlashTimerForgotten(ts) == ts

\* if (flashTimerRef.current) clearInterval(flashTimerRef.current)
ClearFlashTimer(ts) ==
  IF flashTimerRef # NULL THEN { t \in ts : t.id # flashTimerRef } ELSE ts

\* one period of config.interval has passed with currentIndex on display
PeriodElapsed ==
  IF currentIndex >= 0 /\ currentIndex < Len(displayedFor)
    THEN [displayedFor EXCEPT ![currentIndex + 1] = @ + 1]
    ELSE displayedFor

(***************************************************************************)
(* Handlers.                                                               *)
(***************************************************************************)
\* START screen: onClick of a preset button
SelectPreset(level) ==
  /\ gameState = "START"
  /\ config' = level
  /\ UNCHANGED << gameState, userAnswer >>
  /\ UNCHANGED << ledger, round, flash >>

startGameResettingStreak(newNumbers) ==
  /\ numbers' = newNumbers
  /\ correctAnswer' = ReduceAdd(newNumbers)
  /\ gameState' = "READY"
  /\ userAnswer' = << >>
  /\ streak' = 0
  /\ UNCHANGED << config, score, praise, submits, flash >>

startGameKeepingInput(newNumbers) ==
  /\ numbers' = newNumbers
  /\ correctAnswer' = ReduceAdd(newNumbers)
  /\ gameState' = "READY"
  /\ UNCHANGED << config, userAnswer, ledger, flash >>

\* startGame with the array the random draws produced
startGame(newNumbers) ==
  /\ numbers' = newNumbers
  /\ correctAnswer' = ReduceAdd(newNumbers)
  /\ gameState' = "READY"
  /\ userAnswer' = << >>
  /\ UNCHANGED << config, ledger, flash >>

\* START screen: onClick = startGame
StartGame ==
  /\ gameState = "START"
  /\ Len(submits) < MaxRounds
  /\ \E newNumbers \in NewNumbers(config) : startGame(newNumbers)

\* RESULT screen: onClick = startGame
Restart ==
  /\ gameState = "RESULT"
  /\ Len(submits) < MaxRounds
  /\ \E newNumbers \in NewNumbers(config) : startGame(newNumbers)

\* READY screen: GO!! sets FLASHING; the effect then runs for the new state
Advance ==
  /\ gameState = "READY"
  /\ gameState' = "FLASHING"
  /\ currentIndex' = 0
  /\ flashTimerRef' = FreshTimerId
  /\ timers' = timers \cup
       { [id |-> FreshTimerId, kind |-> "interval", idx |-> 0, len |-> Len(numbers)] }
  /\ flashLog' = << 0 >>
  /\ displayedFor' = [k \in 1..Len(numbers) |-> 0]
  /\ flashSignals' = 1
  /\ UNCHANGED << config, userAnswer >>
  /\ UNCHANGED << ledger, round >>

IntervalFireSoundingLast(t) ==
  /\ t \in timers
  /\ t.kind = "interval"
  /\ displayedFor' = PeriodElapsed
  /\ flashSignals' = flashSignals + 1
  /\ LET idx == NextIdx(t.idx)
         ticked == (timers \ { t }) \cup { [t EXCEPT !.idx = idx] }
     IN IF idx < t.len
          THEN /\ currentIndex' = idx
               /\ flashLog' = Append(flashLog, idx)
               /\ timers' = ticked
          ELSE /\ timers' = ClearFlashTimer(ticked) \cup
                    { [id |-> FreshTimerId, kind |-> "timeout", idx |-> idx, len |-> t.len] }
               /\ UNCHANGED << currentIndex, flashLog >>
  /\ UNCHANGED << gameState, config, userAnswer, flashTimerRef >>
  /\ UNCHANGED << ledger, round >>

IntervalFireNoFinalDelay(t) ==
  /\ t \in timers
  /\ t.kind = "interval"
  /\ displayedFor' = PeriodElapsed
  /\ LET idx == NextIdx(t.idx)
         ticked == (timers \ { t }) \cup { [t EXCEPT !.idx = idx] }
     IN IF idx < t.len
          THEN /\ currentIndex' = idx
               /\ flashLog' = Append(flashLog, idx)
               /\ flashSignals' = flashSignals + 1
               /\ timers' = ticked
          ELSE /\ timers' = ClearFlashTimer(ticked)
               /\ UNCHANGED << currentIndex, flashLog, flashSignals >>
  /\ UNCHANGED << gameState, config, userAnswer, flashTimerRef >>
  /\ UNCHANGED << ledger, round >>

\* the callback of window.setInterval fires
IntervalFire(t) ==
  /\ t \in timers
  /\ t.kind = "interval"
  /\ displayedFor' = PeriodElapsed
  /\ LET idx == NextIdx(t.idx)
         ticked == (timers \ { t }) \cup { [t EXCEPT !.idx = idx] }
     IN IF idx < t.len
          THEN /\ currentIndex' = idx
               /\ flashLog' = Append(flashLog, idx)
               /\ flashSignals' = flashSignals + 1
               /\ timers' = ticked
          ELSE /\ timers' = ClearFlashTimer(ticked) \cup
                    { [id |-> FreshTimerId, kind |-> "timeout", idx |-> idx, len |-> t.len] }
               /\ UNCHANGED << currentIndex, flashLog, flashSignals >>
  /\ UNCHANGED << gameState, config, userAnswer, flashTimerRef >>
  /\ UNCHANGED << ledger, round >>

TimeoutFireKeepingIndex(t) ==
  /\ t \in timers
  /\ t.kind = "timeout"
  /\ displayedFor' = PeriodElapsed
  /\ gameState' = "ANSWERING"
  /\ timers' = IF gameState = "FLASHING"
                 THEN ClearFlashTimer(timers \ { t })
                 ELSE timers \ { t }
  /\ UNCHANGED << config, userAnswer, flashTimerRef, flashSignals, currentIndex, flashLog >>
  /\ UNCHANGED << ledger, round >>

\* the callback of the final setTimeout fires; leaving FLASHING runs the
\* cleanup of the effect
TimeoutFire(t) ==
  /\ t \in timers
  /\ t.kind = "timeout"
  /\ displayedFor' = PeriodElapsed
  /\ gameState' = "ANSWERING"
  /\ currentIndex' = -1
  /\ flashLog' = Append(flashLog, -1)
  /\ timers' = IF gameState = "FLASHING"
                 THEN ClearFlashTimer(timers \ { t })
                 ELSE timers \ { t }
  /\ UNCHANGED << config, userAnswer, flashTimerRef, flashSignals >>
  /\ UNCHANGED << ledger, round >>

handleNumClickCapFour(val) ==
  /\ userAnswer' = IF Len(userAnswer) <= 3 THEN Append(userAnswer, val) ELSE userAnswer
  /\ UNCHANGED << gameState, config >>
  /\ UNCHANGED << ledger, round, flash >>

handleNumClickCapTwo(val) ==
  /\ userAnswer' = IF Len(userAnswer) < 2 THEN Append(userAnswer, val) ELSE userAnswer
  /\ UNCHANGED << gameState, config >>
  /\ UNCHANGED << ledger, round, flash >>

\* handleNumClick(val) for a digit button
handleNumClick(val) ==
  /\ userAnswer' = IF Len(userAnswer) < 3 THEN Append(userAnswer, val) ELSE userAnswer
  /\ UNCHANGED << gameState, config >>
  /\ UNCHANGED << ledger, round, flash >>

\* ANSWERING screen: a digit button
DigitInput(d) ==
  /\ gameState = "ANSWERING"
  /\ handleNumClick(DigitKeys[d + 1])

\* ANSWERING screen: the C button, handleNumClick('C')
ClearInput ==
  /\ gameState = "ANSWERING"
  /\ userAnswer' = << >>
  /\ UNCHANGED << gameState, config >>
  /\ UNCHANGED << ledger, round, flash >>

\* checkAnswer; r is the numerator of the Math.random() of the praise
checkAnswer(r) ==
  LET isCorrect == StrictEquals(parseInt(userAnswer), correctAnswer)
  IN /\ IF isCorrect
          THEN /\ score' = CorrectScore(score, config.count, streak)
               /\ streak' = streak + 1
               /\ praise' = PRAISE_MESSAGES[FloorRandomTimes(r, Len(PRAISE_MESSAGES)) + 1]
          ELSE /\ streak' = MissStreak(streak)
               /\ praise' = MISS_MESSAGE
               /\ UNCHANGED score
     /\ gameState' = "RESULT"
     /\ submits' = Append(submits, isCorrect)
     /\ UNCHANGED << config, userAnswer >>
     /\ UNCHANGED << round, flash >>

SubmitNeverDisabled ==
  /\ gameState = "ANSWERING"
  /\ \E r \in RandomSource : checkAnswer(r)

\* ANSWERING screen: OK!, disabled while userAnswer is empty
Submit ==
  /\ gameState = "ANSWERING"
  /\ userAnswer # << >>
  /\ \E r \in RandomSource : checkAnswer(r)

GoHomeToAnswering ==
  /\ gameState = "RESULT"
  /\ gameState' = "ANSWERING"
  /\ UNCHANGED << config, userAnswer >>
  /\ UNCHANGED << ledger, round, flash >>

GoHomeClearing ==
  /\ gameState = "RESULT"
  /\ gameState' = "START"
  /\ userAnswer' = << >>
  /\ UNCHANGED config
  /\ UNCHANGED << ledger, round, flash >>

\* RESULT screen: the home button, setGameState(GameState.START)
GoHome ==
  /\ gameState = "RESULT"
  /\ gameState' = "START"
  /\ UNCHANGED << config, userAnswer >>
  /\ UNCHANGED << ledger, round, flash >>

\* progress, as the fraction num / den of a percentage
progress ==
  IF currentIndex >= 0
    THEN [num |-> (currentIndex + 1) * 100, den |-> Len(numbers)]
    ELSE [num |-> 0, den |-> 1]

Next ==
  \/ \E i \in 1..MaxPreset : SelectPreset(DIFFICULTY_LEVELS[i])
  \/ StartGame
  \/ Restart
  \/ Advance
  \/ \E t \in timers : IntervalFire(t)
  \/ \E t \in timers : TimeoutFire(t)
  \/ \E d \in 0..MaxDigit : DigitInput(d)
  \/ ClearInput
  \/ Submit
  \/ GoHome

Spec == Init /\ [][Next]_vars

(***************************************************************************)
(* Round generation and the flash sequence as functions of the preset:     *)
(* the preset is an input, drawn from records of the GameConfig shape,     *)
(* valid ones and ones with count < 1 or maxValue < 1.                     *)
(***************************************************************************)
TestPresets ==
  { [name |-> "input", count |-> c, interval |-> 1000, maxValue |-> m] :
      c \in -1..MaxTestCount, m \in -1..MaxTestValue }

\* the component mounted with an input preset as its config
GenInit ==
  /\ gameState = "START"
  /\ config \in TestPresets
  /\ numbers = << >>
  /\ currentIndex = -1
  /\ userAnswer = << >>
  /\ score = 0
  /\ correctAnswer = 0
  /\ streak = 0
  /\ praise = ""
  /\ flashTimerRef = NULL
  /\ timers = { }
  /\ flashLog = << >>
  /\ displayedFor = << >>
  /\ flashSignals = 0
  /\ submits = << >>

GenSpec == GenInit /\ [][Next]_vars

\* READY with a round startGame produced for a preset of count >= 1
FlashInit ==
  /\ gameState = "READY"
  /\ config \in { p \in TestPresets : p.count >= 1 /\ p.maxValue >= 1 }
  /\ numbers \in NewNumbers(config)
  /\ correctAnswer = ReduceAdd(numbers)
  /\ currentIndex = -1
  /\ userAnswer = << >>
  /\ score = 0
  /\ streak = 0
  /\ praise = ""
  /\ flashTimerRef = NULL
  /\ timers = { }
  /\ flashLog = << >>
  /\ displayedFor = << >>
  /\ flashSignals = 0
  /\ submits = << >>

\* the GO button and the timers of the effect, no other trigger
FlashNext ==
  \/ Advance
  \/ \E t \in timers : IntervalFire(t)
  \/ \E t \in timers : TimeoutFire(t)

\* a pending window timer fires after its delay
FlashSpec ==
  /\ FlashInit
  /\ [][FlashNext]_vars
  /\ WF_vars(\E t \in timers : IntervalFire(t))
  /\ WF_vars(\E t \in timers : TimeoutFire(t))

(***************************************************************************)
(* One round of every preset of the catalog, the player typing the digits  *)
(* 0..MaxDigit or the next digit of the sum.                               *)
(***************************************************************************)
RECURSIVE Decimal(_)
\* the digit labels of n >= 0 in base 10, as the keypad types them
Decimal(n) ==
  IF n < 10 THEN << DigitKeys[n + 1] >>
            ELSE Append(Decimal(n \div 10), DigitKeys[(n % 10) + 1])

\* the digit that continues userAnswer towards the stored sum, if any
NextDigitOfSum ==
  LET target == Decimal(correctAnswer)
  IN IF /\ correctAnswer >= 0
        /\ Len(userAnswer) < Len(target)
        /\ SubSeq(target, 1, Len(userAnswer)) = userAnswer
       THEN { DigitOf(target[Len(userAnswer) + 1]) }
       ELSE { }

CatalogNext ==
  \/ \E i \in 1..Len(DIFFICULTY_LEVELS) : SelectPreset(DIFFICULTY_LEVELS[i])
  \/ StartGame
  \/ Advance
  \/ \E t \in timers : IntervalFire(t)
  \/ \E t \in timers : TimeoutFire(t)
  \/ \E d \in (0..MaxDigit) \cup NextDigitOfSum : DigitInput(d)
  \/ ClearInput
  \/ Submit

CatalogSpec == Init /\ [][CatalogNext]_vars

(***************************************************************************)
(* Properties.                                                             *)
(***************************************************************************)
Range(s) == { s[i] : i \in 1..Len(s) }

\* the values every variable can take
TypeOK ==
  /\ gameState \in GameState
  /\ config \in Range(DIFFICULTY_LEVELS)
  /\ numbers \in Seq(Nat)
  /\ currentIndex \in Int
  /\ userAnswer \in Seq(Range(DigitKeys))
  /\ score \in Int
  /\ correctAnswer \in Int
  /\ streak \in Int
  /\ praise \in Range(PRAISE_MESSAGES) \cup { MISS_MESSAGE, "" }
  /\ flashTimerRef \in Nat
  /\ \A t \in timers : t.kind \in { "interval", "timeout" }
  /\ submits \in Seq(BOOLEAN)

PhaseEdges ==
  { << "START", "READY" >>, << "READY", "FLASHING" >>, << "FLASHING", "ANSWERING" >>,
    << "ANSWERING", "RESULT" >>, << "RESULT", "READY" >>, << "RESULT", "START" >> }

\* a checkAnswer has just been taken
SubmitTaken == Len(submits') = Len(submits) + 1

\* the step is the home button's
GoHomeTaken == gameState = "RESULT" /\ gameState' = "START"

\* C1: every change of phase is START->READY, READY->FLASHING,
\* FLASHING->ANSWERING, ANSWERING->RESULT, RESULT->READY or RESULT->START.
C1_PhaseEdgesOnly ==
  [][gameState' # gameState => << gameState, gameState' >> \in PhaseEdges]_vars

\* a session that went through a whole round and came back to START
C1_Witness == gameState = "START" /\ Len(submits) >= 1 /\ currentIndex = -1

\* the indices 0..n-1 in increasing order
Ascending(n) == [i \in 1..n |-> i - 1]

\* C2: while FLASHING the indices displayed so far are 0, 1, ..., currentIndex,
\* each once and in increasing order; when the phase has become ANSWERING they
\* were exactly 0 .. N-1, followed by the clearing to -1.
C2_FlashOrder ==
  /\ gameState = "FLASHING" =>
       /\ currentIndex \in 0..(Len(numbers) - 1)
       /\ flashLog = Ascending(currentIndex + 1)
  /\ gameState = "ANSWERING" =>
       flashLog = Ascending(Len(numbers)) \o << -1 >>

C2_Witness ==
  /\ gameState = "ANSWERING"
  /\ Len(numbers) = 3
  /\ flashLog = << 0, 1, 2, -1 >>

\* C3: when the phase has become ANSWERING the displayed index is -1 and every
\* index 0..N-1, the last one included, was on display for exactly one period.
C3_EqualDisplayPeriods ==
  gameState = "ANSWERING" =>
    /\ currentIndex = -1
    /\ \A k \in 1..Len(numbers) : displayedFor[k] = 1

\* C4: a submit whose input parses to the stored sum adds count*10 + s*5 to
\* the score, s the streak before the submit, and makes the streak s+1.
C4_CorrectSubmit ==
  [][(SubmitTaken /\ StrictEquals(parseInt(userAnswer), correctAnswer)) =>
       /\ score' = score + config.count * 10 + streak * 5
       /\ streak' = streak + 1]_vars

\* two correct submits in a row: the second was scored with a streak of 1
C4_Witness ==
  /\ gameState = "RESULT"
  /\ Len(submits) >= 2
  /\ submits[Len(submits)] /\ submits[Len(submits) - 1]
  /\ streak >= 2
  /\ score >= 45

\* C5: a submit whose input does not parse to the stored sum sets the streak
\* to 0, leaves the score, moves to RESULT and shows the fixed miss message,
\* which is none of the random praise messages.
C5_WrongSubmit ==
  [][(SubmitTaken /\ ~StrictEquals(parseInt(userAnswer), correctAnswer)) =>
       /\ streak' = 0
       /\ score' = score
       /\ gameState' = "RESULT"
       /\ praise' = MISS_MESSAGE
       /\ praise' \notin Range(PRAISE_MESSAGES)]_vars

\* a miss right after a correct answer: the streak was 1 and is 0
C5_Witness ==
  /\ gameState = "RESULT"
  /\ Len(submits) >= 2
  /\ ~submits[Len(submits)] /\ submits[Len(submits) - 1]
  /\ streak = 0
  /\ score > 0
  /\ praise = MISS_MESSAGE

RECURSIVE TrailingCorrect(_)
\* the number of correct submits since the last incorrect one
TrailingCorrect(s) ==
  IF Len(s) = 0 \/ ~s[Len(s)] THEN 0 ELSE 1 + TrailingCorrect(SubSeq(s, 1, Len(s) - 1))

\* C6: the streak is the number of consecutive correct submits since the last
\* incorrect one, and no step from START or RESULT (select preset, start
\* game, restart, go home) changes it.
C6_Streak ==
  /\ [](streak = TrailingCorrect(submits))
  /\ [][(gameState \in { "START", "RESULT" }) => (streak' = streak)]_vars

\* a correct answer after a miss, in a round reached by restart or go home
C6_Witness ==
  /\ gameState = "RESULT"
  /\ Len(submits) >= 2
  /\ submits[Len(submits)] /\ ~submits[Len(submits) - 1]
  /\ streak = 1

\* C7: the score is never negative and no step decreases it.
C7_ScoreMonotonic ==
  /\ [](score >= 0)
  /\ [][score' >= score]_vars

\* a second round was answered after points had been won
C7_Witness ==
  /\ gameState = "RESULT"
  /\ Len(submits) >= 2
  /\ submits[1]
  /\ score > 0

RECURSIVE ArithmeticSum(_)
ArithmeticSum(s) == IF s = << >> THEN 0 ELSE Head(s) + ArithmeticSum(Tail(s))

\* C8: the stored sum is the sum of the stored values, and the two change
\* only in a step from START or RESULT to READY (start game, restart).
C8_SumOfValues ==
  /\ [](correctAnswer = ArithmeticSum(numbers))
  /\ [][(numbers' # numbers \/ correctAnswer' # correctAnswer) =>
          (gameState \in { "START", "RESULT" } /\ gameState' = "READY")]_vars

\* a second round, generated after the first was answered
C8_Witness ==
  /\ gameState = "ANSWERING"
  /\ Len(submits) >= 1
  /\ Len(numbers) = 3
  /\ correctAnswer = 11

\* C9: outside START the round has count values, each in 1..maxValue of the
\* selected preset, and the preset changes only by a step that stays in START.
C9_RoundMatchesPreset ==
  /\ [](gameState # "START" =>
          /\ Len(numbers) = config.count
          /\ \A i \in 1..Len(numbers) : numbers[i] \in 1..config.maxValue)
  /\ [][config' # config => (gameState = "START" /\ gameState' = "START")]_vars

\* a round of the second preset holding both ends of its range
C9_Witness ==
  /\ gameState = "ANSWERING"
  /\ config = DIFFICULTY_LEVELS[2]
  /\ 1 \in Range(numbers)
  /\ config.maxValue \in Range(numbers)

\* C10 as stated: go home moves to START, clears the round (so that START
\* holds no round) and the input, and keeps score and streak.
C10_GoHomeClears ==
  [][GoHomeTaken =>
       /\ numbers' = << >>
       /\ userAnswer' = << >>
       /\ score' = score
       /\ streak' = streak]_vars

\* C10 amended: go home moves to START and changes nothing else; the round
\* and the input stay until the next start game replaces the round and
\* empties the input.
C10_GoHomeKeeps ==
  /\ [][GoHomeTaken =>
          UNCHANGED << numbers, correctAnswer, userAnswer, score, streak, config >>]_vars
  /\ [][(gameState = "START" /\ gameState' = "READY") => userAnswer' = << >>]_vars

\* back at START with the last round and the last input still stored
C10_Witness ==
  /\ gameState = "START"
  /\ numbers # << >>
  /\ userAnswer # << >>
  /\ Len(submits) >= 1

\* the step is the restart button's
RestartTaken == gameState = "RESULT" /\ gameState' = "READY"

\* C11: restart moves RESULT to READY, stores a new round of the preset (its
\* values and their sum together), empties the input and leaves score and
\* streak as they were.
C11_Restart ==
  [][RestartTaken =>
       /\ Len(numbers') = config.count
       /\ \A i \in 1..Len(numbers') : numbers'[i] \in 1..config.maxValue
       /\ correctAnswer' = ArithmeticSum(numbers')
       /\ userAnswer' = << >>
       /\ score' = score
       /\ streak' = streak]_vars

\* a round started from RESULT with points and a streak carried over
C11_Witness ==
  /\ gameState = "READY"
  /\ Len(submits) >= 1
  /\ submits[Len(submits)]
  /\ streak >= 1
  /\ score > 0
  /\ userAnswer = << >>

\* C12: the input holds digit labels only and at most 3 of them; it is empty
\* when the phase enters ANSWERING; within ANSWERING it changes only by being
\* emptied or, below length 3, by one digit appended; clear empties it.
C12_PendingInput ==
  /\ [](/\ Len(userAnswer) <= 3
        /\ \A i \in 1..Len(userAnswer) : userAnswer[i] \in Range(DigitKeys))
  /\ [][(gameState # "ANSWERING" /\ gameState' = "ANSWERING") => userAnswer' = << >>]_vars
  /\ [][(gameState = "ANSWERING" /\ userAnswer' # userAnswer) =>
          \/ userAnswer' = << >>
          \/ /\ Len(userAnswer) < 3
             /\ \E d \in 0..9 : userAnswer' = Append(userAnswer, DigitKeys[d + 1])]_vars
  /\ [][ClearInput => userAnswer' = << >>]_vars

\* a full input in a round after the first one
C12_Witness ==
  /\ gameState = "ANSWERING"
  /\ Len(userAnswer) = 3
  /\ Len(submits) >= 1

\* C13: in ANSWERING with an empty input no step changes the phase, score,
\* streak, praise or the round, and no answer is evaluated.
C13_EmptySubmitIgnored ==
  [][(gameState = "ANSWERING" /\ userAnswer = << >>) =>
       /\ UNCHANGED << gameState, score, streak, praise, numbers, correctAnswer >>
       /\ ~SubmitTaken]_vars

\* ANSWERING with an empty input and a streak an evaluation would reset
C13_Witness ==
  /\ gameState = "ANSWERING"
  /\ userAnswer = << >>
  /\ streak >= 1

\* C14: at most one flash timer is pending, none outside FLASHING, and a
\* pending timer belongs to the current round: its closure has the length of
\* the stored round and the index on display, and a pending interval is the
\* one flashTimerRef holds.
C14_SingleFlashTimer ==
  /\ Cardinality(timers) <= 1
  /\ gameState # "FLASHING" => timers = { }
  /\ \A t \in timers :
       /\ t.len = Len(numbers)
       /\ t.kind = "interval" => (t.id = flashTimerRef /\ t.idx = currentIndex)
       /\ t.kind = "timeout" => currentIndex = Len(numbers) - 1

\* the final delay of a second round is pending, alone
C14_Witness ==
  /\ gameState = "FLASHING"
  /\ Len(submits) >= 1
  /\ \E t \in timers : t.kind = "timeout"

\* C17: -1 <= currentIndex < number of values; it is non-negative only while
\* FLASHING; progress is 0 outside FLASHING, at most 100 percent, and 100
\* percent exactly when the last index is on display.
C17_IndexAndProgress ==
  /\ -1 <= currentIndex
  /\ currentIndex < Len(numbers)
  /\ currentIndex >= 0 => gameState = "FLASHING"
  /\ gameState # "FLASHING" => progress.num = 0
  /\ progress.den > 0
  /\ progress.num <= 100 * progress.den
  /\ (progress.num = 100 * progress.den) <=>
       (currentIndex >= 0 /\ currentIndex = Len(numbers) - 1)

\* the last of three indices is on display
C17_Witness ==
  /\ gameState = "FLASHING"
  /\ Len(numbers) = 3
  /\ currentIndex = 2
  /\ progress.num = 100 * progress.den

\* C18: while FLASHING one flash signal has been emitted per index displayed
\* so far; once ANSWERING, exactly N signals were emitted: none by the last
\* tick of the interval nor by the final delay.
C18_FlashSignals ==
  /\ gameState = "FLASHING" =>
       (flashSignals = Len(flashLog) /\ flashSignals = currentIndex + 1)
  /\ gameState = "ANSWERING" => flashSignals = Len(numbers)

\* a round of three has been flashed with three signals
C18_Witness ==
  /\ gameState = "ANSWERING"
  /\ Len(numbers) = 3
  /\ flashSignals = 3

\* count < 1 or maxValue < 1
InvalidConfiguration(cfg) == cfg.count < 1 \/ cfg.maxValue < 1

C16_FlashingEnds ==
  (gameState = "FLASHING") ~> (gameState = "ANSWERING" /\ currentIndex = -1)

\* a round of one value was flashed without any advance of the index
C16_Witness ==
  /\ gameState = "ANSWERING"
  /\ Len(numbers) = 1
  /\ currentIndex = -1
  /\ flashLog = << 0, -1 >>

\* C19: every stored sum of a catalog round is in 1..999 and its decimal form
\* has at most 3 digits that parse back to it; in ANSWERING the input can be
\* cleared, a prefix of the decimal form can be extended by its next digit,
\* and the complete decimal form can be submitted into the correct branch.
C19_SumTypeable ==
  /\ gameState # "START" =>
       /\ correctAnswer \in 1..999
       /\ Len(Decimal(correctAnswer)) <= 3
       /\ parseInt(Decimal(correctAnswer)) = correctAnswer
  /\ gameState = "ANSWERING" =>
       LET target == Decimal(correctAnswer)
           n == Len(userAnswer)
       IN /\ ENABLED (ClearInput /\ userAnswer' = << >>)
          /\ userAnswer = target =>
               ENABLED (Submit /\ submits' = Append(submits, TRUE))
          /\ (n < Len(target) /\ SubSeq(target, 1, n) = userAnswer) =>
               ENABLED (/\ DigitInput(DigitOf(target[n + 1]))
                        /\ userAnswer' = SubSeq(target, 1, n + 1))

\* the largest sum of the catalog, typed with three digits and accepted
C19_Witness ==
  /\ gameState = "RESULT"
  /\ config = DIFFICULTY_LEVELS[5]
  /\ correctAnswer = 150
  /\ userAnswer = << "1", "5", "0" >>
  /\ submits = << TRUE >>

====
